---- MODULE Spec2Model ----
(***************************************************************************)
(* Model of rss_aggregator.py: main() and the functions it calls.          *)
(*                                                                         *)
(* One run of main() is a chain of steps (pc).  The configuration and the  *)
(* seen-articles file are drawn by Init.  What a feed URL serves is drawn  *)
(* when the run first reads it (the response at the fetch, each entry as   *)
(* the loop reaches it) and recorded in upstream, so that a later run      *)
(* reads the same feed again.  The clock is the variable now.              *)
(***************************************************************************)
EXTENDS Integers, Sequences, FiniteSets

VARIABLES
    pc,                    \* position in main()
    run,                   \* which invocation of the script this is
    now,                   \* the clock, in days
    config,                \* rss_sources.json
    upstream,              \* what each configured URL serves, as far as read
    seen_file,             \* the seen-articles file on disk
    persisted_in,          \* run whose save_seen_articles wrote seen_file (0: none)
    loaded,                \* the set load_seen_articles returned in this run
    seen_urls,             \* seen_article_urls / seen_urls / updated_seen_urls
    cutoff_date,           \* fetch_and_process_feeds: cutoff_date
    i,                     \* index in feed_urls of the feed being processed
    j,                     \* index in feed.entries of the entry being processed
    feed_title,            \* fetch_and_process_feeds: feed_title
    new_entries,           \* fetch_and_process_feeds: new_entries
    new_articles_by_feed,  \* the result dict, as the sequence of its items
    failed_feeds,          \* fetch_and_process_feeds: failed_feeds
    html_output,           \* main: html_output
    stdout,                \* what was printed to the output stream
    stderr                 \* what was printed to the diagnostic stream

vars == <<pc, run, now, config, upstream, seen_file, persisted_in, loaded,
          seen_urls, cutoff_date, i, j, feed_title, new_entries,
          new_articles_by_feed, failed_feeds, html_output, stdout, stderr>>

----------------------------------------------------------------------------
(* Bounds of the model. *)

MaxFeeds == 2          \* most URLs in config["feeds"]
MaxEntries == 2        \* most entries the feeds serve, all together
Now0 == 2              \* the day of the first run
ArticleAgeDays == 1    \* settings["article_age_days"]

----------------------------------------------------------------------------
(* The values the run reads. *)

Absent == "<absent>"                     \* a link or title the feed does not give
NoDate == [kind |-> "absent"]            \* a date field the entry does not have
Links == {"a", "b"}
Titles == {"T"}

Cutoff0 == Now0 - ArticleAgeDays         \* the first run's cutoff
Days == {Cutoff0 - 1, Cutoff0, Cutoff0 + 1}

(* A date string: text dateutil cannot parse, text whose numbers overflow, *)
(* or a date, with or without a time zone.                                 *)
Unparseable == [kind |-> "text"]
Overflowing == [kind |-> "huge"]
DateStr(day, tz) == [kind |-> "date", day |-> day, tz |-> tz]
Utc == "utc"
Naive == "naive"

Entry(link, published, updated) ==
    [link |-> link, published |-> published, updated |-> updated]

(* The entries a feed may serve. *)
EntryPool ==
    {Entry(Absent, DateStr(Cutoff0 + 1, Utc), NoDate)}
    \cup {Entry("a", DateStr(d, Utc), NoDate) : d \in Days}
    \cup {Entry("b", NoDate, DateStr(Cutoff0, Naive)),
          Entry("b", Unparseable, NoDate),
          Entry("b", Overflowing, NoDate),
          Entry("a", NoDate, NoDate)}

(* What a URL serves: an HTTP error, a document feedparser raises on, or a *)
(* feed with an optional title and its entries.  closed: the run has read  *)
(* all it will read of it.                                                 *)
Feed(status, title) ==
    [status |-> status, title |-> title, entries |-> <<>>,
     closed |-> status # "ok"]

Responses ==
    {Feed(s, Absent) : s \in {"http_error", "malformed"}}
    \cup {Feed("ok", t) : t \in Titles \cup {Absent}}

RECURSIVE EntriesServed(_)
EntriesServed(fs) ==
    IF fs = <<>> THEN 0 ELSE Len(Head(fs).entries) + EntriesServed(Tail(fs))

(* rss_sources.json: missing, without its "settings", or complete. *)
ValidConfig(n) ==
    [kind |-> "valid", feeds |-> [k \in 1..n |-> k],
     article_age_days |-> ArticleAgeDays]
BadConfigs == {[kind |-> "missing"], [kind |-> "no_settings"]}

(* The seen-articles file: missing, not to be opened, not JSON, bytes that *)
(* do not decode, a JSON number, a JSON object, or a JSON list of links.   *)
JsonList(items) == [kind |-> "list", items |-> items]
SeenFiles == {[kind |-> "missing"], JsonList(<<"a">>)}
DegradedSeenFiles ==
    {[kind |-> "unreadable"], [kind |-> "invalid_json"],
     [kind |-> "undecodable"], [kind |-> "number"],
     [kind |-> "object", keys |-> {"b"}]}

----------------------------------------------------------------------------
(* Helpers. *)

Range(s) == {s[k] : k \in DOMAIN s}

RECURSIVE SetToSeq(_)
SetToSeq(S) ==
    IF S = {} THEN <<>>
    ELSE LET x == CHOOSE y \in S : TRUE IN <<x>> \o SetToSeq(S \ {x})

Returned(v) == [raised |-> "none", value |-> v]
Raised(e) == [raised |-> e]

----------------------------------------------------------------------------
(* load_config *)

load_config(file) ==
    IF file.kind = "missing" THEN Raised("FileNotFoundError") ELSE Returned(file)

----------------------------------------------------------------------------
(* load_seen_articles, save_seen_articles *)

(* json.load of the file's text, then set(...) of the document. *)
load_seen_articles(file) ==
    CASE file.kind = "missing"      -> Returned({})
      [] file.kind = "unreadable"   -> Returned({})
      [] file.kind = "invalid_json" -> Returned({})
      [] file.kind = "undecodable"  -> Raised("UnicodeDecodeError")
      [] file.kind = "number"       -> Raised("TypeError")
      [] file.kind = "object"       -> Returned(file.keys)
      [] file.kind = "list"         -> Returned(Range(file.items))

(* A save that writes an empty list. *)
save_seen_articles_Empty(articles_to_save) == JsonList(<<>>)

(* json.dump(list(articles_to_save), f) over the file opened with 'w' *)
save_seen_articles(articles_to_save) == JsonList(SetToSeq(articles_to_save))

(* The links a later load_seen_articles would read from the file as it is. *)
Persisted ==
    LET r == load_seen_articles(seen_file)
    IN  IF r.raised = "none" THEN r.value ELSE {}

----------------------------------------------------------------------------
(* Dates *)

Datetime(day, tzinfo) == [day |-> day, tzinfo |-> tzinfo]

(* dateutil.parser.parse *)
ParseDate(s) ==
    CASE s.kind = "text" -> Raised("ParserError")
      [] s.kind = "huge" -> Raised("OverflowError")
      [] s.kind = "date" ->
            Returned(Datetime(s.day, IF s.tz = Naive THEN Absent ELSE s.tz))

(* if pub_date.tzinfo is None: pub_date = pub_date.replace(tzinfo=utc) *)
AssumeUtc(pub_date) ==
    IF pub_date.tzinfo = Absent THEN Datetime(pub_date.day, Utc) ELSE pub_date

(* A comparison that lets every date through. *)
NotOlder_AnyAge(pub_date, cutoff) ==
    IF pub_date.tzinfo = Absent \/ cutoff.tzinfo = Absent
    THEN Raised("TypeError")
    ELSE Returned(TRUE)

(* The comparison written with > in place of >=. *)
NotOlder_Strict(pub_date, cutoff) ==
    IF pub_date.tzinfo = Absent \/ cutoff.tzinfo = Absent
    THEN Raised("TypeError")
    ELSE Returned(pub_date.day > cutoff.day)

(* pub_date >= cutoff_date: Python refuses to order a naive and an aware   *)
(* datetime.                                                               *)
NotOlder(pub_date, cutoff) ==
    IF pub_date.tzinfo = Absent \/ cutoff.tzinfo = Absent
    THEN Raised("TypeError")
    ELSE Returned(pub_date.day >= cutoff.day)

(* datetime.now(timezone.utc) - timedelta(days=article_age_days) *)
CutoffDate(today, article_age_days) == Datetime(today - article_age_days, Utc)

----------------------------------------------------------------------------
(* fetch_and_process_feeds: one entry of a feed *)

PubDateStr(entry) ==
    IF entry.published # NoDate THEN entry.published ELSE entry.updated

(* An article carries, beside its link and date, the place of its entry    *)
(* (feed index, entry index) so that properties can speak of it.           *)
Article(entry, pub_date, feed, pos) ==
    [link |-> entry.link, date |-> pub_date, feed |-> feed, pos |-> pos]

Continue == [outcome |-> "continue"]

(* The entry's link is not looked up in the seen set. *)
Skipped_IgnoringSeen(entry, seen) == entry.link = Absent

(* if not link or link in seen_urls: continue *)
Skipped(entry, seen) == entry.link = Absent \/ entry.link \in seen

(* The accepted link takes the place of the set. *)
MarkSeen_Only(seen, link) == {link}

(* The accepted link is not added. *)
MarkSeen_Forget(seen, link) == seen

(* seen_urls.add(link) *)
MarkSeen(seen, link) == seen \cup {link}

(* The body of "for entry in feed.entries": continue, append and mark     *)
(* seen, or raise out of the loop.                                         *)
EntryStep(entry, seen, cutoff, feed, pos) ==
    IF Skipped(entry, seen) THEN Continue
    ELSE IF PubDateStr(entry) = NoDate THEN Continue
    ELSE LET parsed == ParseDate(PubDateStr(entry)) IN
         IF parsed.raised = "ParserError" THEN Continue
         ELSE IF parsed.raised # "none"
         THEN [outcome |-> "raise", error |-> parsed.raised]
         ELSE LET pub_date == AssumeUtc(parsed.value)
                  recent == NotOlder(pub_date, cutoff) IN
              IF recent.raised # "none"
              THEN [outcome |-> "raise", error |-> recent.raised]
              ELSE IF recent.value
              THEN [outcome |-> "append",
                    article |-> Article(entry, pub_date, feed, pos)]
              ELSE Continue

----------------------------------------------------------------------------
(* fetch_and_process_feeds: the end of a feed *)

(* A sort that puts an article before the earlier ones of its date. *)
InsertByDate_Unstable(x, s) ==
    LET keep == {k \in 0..Len(s) : \A m \in 1..k : s[m].date.day > x.date.day}
        at == CHOOSE k \in keep : \A m \in keep : m <= k
    IN  SubSeq(s, 1, at) \o <<x>> \o SubSeq(s, at + 1, Len(s))

(* list.sort(key=date, reverse=True): stable, newest first.  Each article *)
(* is put behind the ones before it in the list that are not older.       *)
RECURSIVE SortNewestFirst(_)
InsertByDate(x, s) ==
    LET keep == {k \in 0..Len(s) : \A m \in 1..k : s[m].date.day >= x.date.day}
        at == CHOOSE k \in keep : \A m \in keep : m <= k
    IN  SubSeq(s, 1, at) \o <<x>> \o SubSeq(s, at + 1, Len(s))
SortNewestFirst(s) ==
    IF s = <<>> THEN <<>>
    ELSE InsertByDate(s[Len(s)], SortNewestFirst(SubSeq(s, 1, Len(s) - 1)))

(* d[key] = value on a dict kept as the sequence of its items. *)
DictSet(d, key, value) ==
    IF \E k \in DOMAIN d : d[k].key = key
    THEN [k \in DOMAIN d |->
            IF d[k].key = key THEN [key |-> key, value |-> value] ELSE d[k]]
    ELSE Append(d, [key |-> key, value |-> value])

FeedTitle(feed) == IF feed.title = Absent THEN "Untitled Feed" ELSE feed.title

----------------------------------------------------------------------------
(* format_html_output *)

RECURSIVE SumArticles(_)
SumArticles(d) ==
    IF d = <<>> THEN 0 ELSE Len(Head(d).value) + SumArticles(Tail(d))

(* A rendering with the failure panel in every document. *)
format_html_output_PanelAlways(new_articles, failed, article_age_days) ==
    [summary |->
        IF new_articles = <<>>
        THEN [text |-> "No new articles found", days |-> article_age_days]
        ELSE [text |-> "new articles from", total |-> SumArticles(new_articles),
              sources |-> Len(new_articles), days |-> article_age_days],
     sections |->
        [k \in DOMAIN new_articles |->
            [title |-> new_articles[k].key,
             count |-> Len(new_articles[k].value),
             items |-> [m \in DOMAIN new_articles[k].value |->
                          [date |-> new_articles[k].value[m].date.day,
                           link |-> new_articles[k].value[m].link]]]],
     failed_panel |-> [shown |-> TRUE, count |-> Len(failed), urls |-> failed]]

(* The summary, the section of each feed title, the failure panel. *)
format_html_output(new_articles, failed, article_age_days) ==
    [summary |->
        IF new_articles = <<>>
        THEN [text |-> "No new articles found", days |-> article_age_days]
        ELSE [text |-> "new articles from", total |-> SumArticles(new_articles),
              sources |-> Len(new_articles), days |-> article_age_days],
     sections |->
        [k \in DOMAIN new_articles |->
            [title |-> new_articles[k].key,
             count |-> Len(new_articles[k].value),
             items |-> [m \in DOMAIN new_articles[k].value |->
                          [date |-> new_articles[k].value[m].date.day,
                           link |-> new_articles[k].value[m].link]]]],
     failed_panel |->
        IF failed # <<>>
        THEN [shown |-> TRUE, count |-> Len(failed), urls |-> failed]
        ELSE [shown |-> FALSE]]

NoHtml == [rendered |-> FALSE]

----------------------------------------------------------------------------
(* The state after the script is started. *)

Start(r, today) ==
    /\ pc = "load_config"
    /\ run = r
    /\ now = today
    /\ loaded = {}
    /\ seen_urls = {}
    /\ cutoff_date = Datetime(0, Utc)
    /\ i = 0
    /\ j = 0
    /\ feed_title = Absent
    /\ new_entries = <<>>
    /\ new_articles_by_feed = <<>>
    /\ failed_feeds = <<>>
    /\ html_output = NoHtml

(* A degraded seen-articles file or a bad configuration is tried with one  *)
(* feed, the other files with every number of feeds.                       *)
Init ==
    /\ \/ /\ config \in {ValidConfig(n) : n \in 1..MaxFeeds}
          /\ seen_file \in SeenFiles
       \/ /\ config \in BadConfigs \cup {ValidConfig(1)}
          /\ seen_file \in DegradedSeenFiles
    /\ upstream = <<>>
    /\ persisted_in = 0
    /\ stdout = <<>>
    /\ stderr = <<>>
    /\ Start(1, Now0)

Fixed == <<config, run, now>>

(* except Exception as e: print(f"Error: {e}", file=sys.stderr); sys.exit(1) *)
Exit1(error) ==
    /\ pc' = "exit1"
    /\ stderr' = Append(stderr, [text |-> "Error", error |-> error])

----------------------------------------------------------------------------
(* main() *)

(* config = load_config(); the four reads of its keys *)
LoadConfig ==
    /\ pc = "load_config"
    /\ LET c == load_config(config) IN
         IF c.raised # "none" THEN Exit1(c.raised)
         ELSE IF c.value.kind # "valid" THEN Exit1("KeyError")
         ELSE pc' = "load_seen" /\ stderr' = stderr
    /\ UNCHANGED <<Fixed, upstream, seen_file, persisted_in, loaded,
                   seen_urls, cutoff_date, i, j, feed_title, new_entries,
                   new_articles_by_feed, failed_feeds, html_output, stdout>>

(* seen_article_urls = load_seen_articles(seen_articles_file) *)
LoadSeen ==
    /\ pc = "load_seen"
    /\ LET r == load_seen_articles(seen_file) IN
         IF r.raised # "none"
         THEN Exit1(r.raised) /\ UNCHANGED <<loaded, seen_urls>>
         ELSE /\ pc' = "aggregate"
              /\ loaded' = r.value
              /\ seen_urls' = r.value
              /\ stderr' = stderr
    /\ UNCHANGED <<Fixed, upstream, seen_file, persisted_in, cutoff_date, i,
                   j, feed_title, new_entries, new_articles_by_feed,
                   failed_feeds, html_output, stdout>>

(* fetch_and_process_feeds, up to its loop over feed_urls *)
BeginAggregate ==
    /\ pc = "aggregate"
    /\ new_articles_by_feed' = <<>>
    /\ failed_feeds' = <<>>
    /\ cutoff_date' = CutoffDate(now, config.article_age_days)
    /\ i' = 1
    /\ pc' = "feed"
    /\ UNCHANGED <<Fixed, upstream, seen_file, persisted_in, loaded,
                   seen_urls, j, feed_title, new_entries, html_output, stdout,
                   stderr>>

(* What either handler of the try around one feed does. *)
FeedFailed ==
    /\ failed_feeds' = Append(failed_feeds, config.feeds[i])
    /\ i' = i + 1
    /\ pc' = "feed"

(* What the URL answers: as recorded, or drawn now. *)
Served(url) ==
    IF url <= Len(upstream) THEN {upstream[url]} ELSE Responses

(* session.get, raise_for_status, feedparser.parse, the feed's title *)
FetchFeed ==
    /\ pc = "feed"
    /\ i <= Len(config.feeds)
    /\ \E response \in Served(config.feeds[i]) :
         /\ upstream' = IF config.feeds[i] <= Len(upstream) THEN upstream
                         ELSE Append(upstream, response)
         /\ \/ /\ response.status = "http_error"
               /\ FeedFailed
               /\ UNCHANGED <<j, feed_title, new_entries>>
            \/ /\ response.status = "malformed"
               /\ FeedFailed
               /\ UNCHANGED <<j, feed_title, new_entries>>
            \/ /\ response.status = "ok"
               /\ feed_title' = FeedTitle(response)
               /\ new_entries' = <<>>
               /\ j' = 1
               /\ pc' = "entry"
               /\ UNCHANGED <<i, failed_feeds>>
    /\ UNCHANGED <<Fixed, seen_file, persisted_in, loaded, seen_urls,
                   cutoff_date, new_articles_by_feed, html_output, stdout,
                   stderr>>

CurrentFeed == upstream[config.feeds[i]]

(* The entry at place j of the current feed: as recorded, or drawn now     *)
(* while the feed is still being read for the first time.                  *)
EntriesAt(pos) ==
    IF pos <= Len(CurrentFeed.entries) THEN {CurrentFeed.entries[pos]}
    ELSE IF ~CurrentFeed.closed /\ EntriesServed(upstream) < MaxEntries
    THEN EntryPool
    ELSE {}

Record(entry, closes) ==
    [upstream EXCEPT ![config.feeds[i]] =
        [@ EXCEPT !.entries = IF j <= Len(@) THEN @ ELSE Append(@, entry),
                  !.closed = @ \/ closes]]

(* one pass of "for entry in feed.entries" *)
ProcessEntry ==
    /\ pc = "entry"
    /\ \E entry \in EntriesAt(j) :
         LET step == EntryStep(entry, seen_urls, cutoff_date, i, j) IN
         \/ /\ step.outcome = "continue"
            /\ upstream' = Record(entry, FALSE)
            /\ j' = j + 1
            /\ UNCHANGED <<pc, i, seen_urls, new_entries, failed_feeds>>
         \/ /\ step.outcome = "append"
            /\ upstream' = Record(entry, FALSE)
            /\ new_entries' = Append(new_entries, step.article)
            /\ seen_urls' = MarkSeen(seen_urls, step.article.link)
            /\ j' = j + 1
            /\ UNCHANGED <<pc, i, failed_feeds>>
         \/ /\ step.outcome = "raise"
            /\ upstream' = Record(entry, TRUE)
            /\ FeedFailed
            /\ UNCHANGED <<j, seen_urls, new_entries>>
    /\ UNCHANGED <<Fixed, seen_file, persisted_in, loaded, cutoff_date,
                   feed_title, new_articles_by_feed, html_output, stdout,
                   stderr>>

(* after the last entry: if new_entries, sort and store under the title *)
EndFeed ==
    /\ pc = "entry"
    /\ j > Len(CurrentFeed.entries)
    /\ upstream' = [upstream EXCEPT ![config.feeds[i]].closed = TRUE]
    /\ new_articles_by_feed' =
          IF new_entries # <<>>
          THEN DictSet(new_articles_by_feed, feed_title,
                       SortNewestFirst(new_entries))
          ELSE new_articles_by_feed
    /\ i' = i + 1
    /\ pc' = "feed"
    /\ UNCHANGED <<Fixed, seen_file, persisted_in, loaded, seen_urls,
                   cutoff_date, j, feed_title, new_entries, failed_feeds,
                   html_output, stdout, stderr>>

(* return new_articles_by_feed, seen_urls, failed_feeds *)
ReturnAggregate ==
    /\ pc = "feed"
    /\ i > Len(config.feeds)
    /\ pc' = "format"
    /\ UNCHANGED <<Fixed, upstream, seen_file, persisted_in, loaded,
                   seen_urls, cutoff_date, i, j, feed_title, new_entries,
                   new_articles_by_feed, failed_feeds, html_output, stdout,
                   stderr>>

(* html_output = format_html_output(new_articles, failures, article_age_days) *)
FormatOutput ==
    /\ pc = "format"
    /\ html_output' = format_html_output(new_articles_by_feed, failed_feeds,
                                         config.article_age_days)
    /\ pc' = "save"
    /\ UNCHANGED <<Fixed, upstream, seen_file, persisted_in, loaded,
                   seen_urls, cutoff_date, i, j, feed_title, new_entries,
                   new_articles_by_feed, failed_feeds, stdout, stderr>>

(* save_seen_articles(updated_seen_urls, seen_articles_file); open() may   *)
(* refuse the file (IOError), which main() reports and exits on.           *)
SaveSeen ==
    /\ pc = "save"
    /\ \/ /\ seen_file' = save_seen_articles(seen_urls)
          /\ persisted_in' = run
          /\ pc' = "print"
          /\ stderr' = stderr
       \/ /\ Exit1("IOError")
          /\ UNCHANGED <<seen_file, persisted_in>>
    /\ UNCHANGED <<Fixed, upstream, loaded, seen_urls, cutoff_date, i, j,
                   feed_title, new_entries, new_articles_by_feed,
                   failed_feeds, html_output, stdout>>

(* print(html_output); the output stream may be closed (BrokenPipeError). *)
PrintDigest ==
    /\ pc = "print"
    /\ \/ /\ stdout' = Append(stdout, html_output)
          /\ pc' = "summary"
          /\ stderr' = stderr
       \/ /\ Exit1("BrokenPipeError")
          /\ stdout' = stdout
    /\ UNCHANGED <<Fixed, upstream, seen_file, persisted_in, loaded,
                   seen_urls, cutoff_date, i, j, feed_title, new_entries,
                   new_articles_by_feed, failed_feeds, html_output>>

(* print(f"Processed ... feeds, found ... new articles", file=sys.stderr) *)
PrintSummary ==
    /\ pc = "summary"
    /\ stderr' = Append(stderr, [text |-> "Processed",
                                 feeds |-> Len(config.feeds),
                                 total |-> SumArticles(new_articles_by_feed)])
    /\ pc' = "done"
    /\ UNCHANGED <<Fixed, upstream, seen_file, persisted_in, loaded,
                   seen_urls, cutoff_date, i, j, feed_title, new_entries,
                   new_articles_by_feed, failed_feeds, html_output, stdout>>

Next ==
    \/ LoadConfig
    \/ LoadSeen
    \/ BeginAggregate
    \/ FetchFeed
    \/ ProcessEntry
    \/ EndFeed
    \/ ReturnAggregate
    \/ FormatOutput
    \/ SaveSeen
    \/ PrintDigest
    \/ PrintSummary

Spec == Init /\ [][Next]_vars

(* The script is started again, the same day or the next, with the files   *)
(* and the feeds as the run before left them.                              *)
RunAgain ==
    /\ pc = "done"
    /\ run = 1
    /\ pc' = "load_config"
    /\ run' = run + 1
    /\ now' \in {now, now + 1}
    /\ loaded' = {}
    /\ seen_urls' = {}
    /\ cutoff_date' = Datetime(0, Utc)
    /\ i' = 0
    /\ j' = 0
    /\ feed_title' = Absent
    /\ new_entries' = <<>>
    /\ new_articles_by_feed' = <<>>
    /\ failed_feeds' = <<>>
    /\ html_output' = NoHtml
    /\ UNCHANGED <<config, upstream, seen_file, persisted_in, stdout, stderr>>

NextTwoRuns == Next \/ RunAgain

SpecTwoRuns == Init /\ [][NextTwoRuns]_vars

----------------------------------------------------------------------------
(* The words the properties are stated in. *)

(* fetch_and_process_feeds has returned in this run. *)
AggregationReturned ==
    \/ pc \in {"format", "save", "print", "summary", "done"}
    \/ pc = "exit1" /\ html_output # NoHtml

ResultArticles ==
    UNION {Range(new_articles_by_feed[k].value) : k \in DOMAIN new_articles_by_feed}
ResultLinks == {a.link : a \in ResultArticles}

(* The feeds whose list in the result map holds the link. *)
FeedsKeeping(link) == {a.feed : a \in {b \in ResultArticles : b.link = link}}

(* The places (feed, position) of the entries read so far. *)
Places ==
    UNION {{<<k, p>> : p \in DOMAIN upstream[k].entries} : k \in DOMAIN upstream}
EntryOf(place) == upstream[place[1]].entries[place[2]]

(* The feeds with an entry of that link. *)
FeedsOffering(link) == {pl[1] : pl \in {q \in Places : EntryOf(q).link = link}}

(* The entry has a link and a date that parses and is not before the cutoff. *)
HasDate(entry) == PubDateStr(entry).kind = "date"
Qualifies(entry) ==
    /\ entry.link # Absent
    /\ HasDate(entry)
    /\ PubDateStr(entry).day >= cutoff_date.day
FeedsQualifying(link) ==
    {pl[1] : pl \in {q \in Places : EntryOf(q).link = link /\ Qualifies(EntryOf(q))}}

Least(S) == CHOOSE x \in S : \A y \in S : x <= y

(* The links this run added to the seen set, and the links of the digests  *)
(* printed so far.                                                         *)
AcceptedLinks == seen_urls \ loaded
DigestLinks(html) ==
    UNION {{html.sections[k].items[m].link : m \in DOMAIN html.sections[k].items} :
           k \in DOMAIN html.sections}
EmittedLinks == UNION {DigestLinks(stdout[k]) : k \in DOMAIN stdout}

(* The feeds whose fetch or whose parse as a document failed. *)
FetchFailed(k) == upstream[k].status # "ok"

----------------------------------------------------------------------------
(* C1: no article of the result map, at any moment of the run, has a link  *)
(* that was in the seen set the run loaded.                                *)
C1_NoSeenLinkInResult ==
    /\ \A a \in ResultArticles : a.link \notin loaded
    /\ \A k \in DOMAIN new_entries : new_entries[k].link \notin loaded

(* The run has returned articles although a feed offered, with a date      *)
(* inside the window, a link that was loaded as seen.                      *)
C1_Witness ==
    /\ AggregationReturned
    /\ ResultArticles # {}
    /\ \E pl \in Places : EntryOf(pl).link \in loaded /\ Qualifies(EntryOf(pl))

----------------------------------------------------------------------------
(* C2, as claimed, for the runs in which no feed failed: a link that       *)
(* occurs in the entries of two feeds is kept by at most one feed, and     *)
(* that feed is the earliest, in input order, of the feeds where it        *)
(* occurs.                                                                 *)
C2_KeptByEarliestOffering ==
    (AggregationReturned /\ failed_feeds = <<>>) =>
        \A link \in Links :
            Cardinality(FeedsOffering(link)) >= 2 =>
                FeedsKeeping(link) \subseteq {Least(FeedsOffering(link))}

(* C2, amended: a link that occurs in the entries of two feeds is kept by  *)
(* at most one feed, and that feed is the earliest, in input order, of the *)
(* feeds where an entry read by the run carries it with a date that parses *)
(* and is not before the cutoff; no feed keeps a link loaded as seen.      *)
C2_KeptByEarliestQualifying ==
    AggregationReturned =>
        \A link \in Links :
            Cardinality(FeedsOffering(link)) >= 2 =>
                /\ Cardinality(FeedsKeeping(link)) <= 1
                /\ FeedsKeeping(link) # {} =>
                      /\ link \notin loaded
                      /\ FeedsQualifying(link) # {}
                      /\ FeedsKeeping(link) = {Least(FeedsQualifying(link))}

(* Two feeds offered the link inside the window and the first kept it. *)
C2_Witness ==
    /\ AggregationReturned
    /\ \E link \in Links :
          /\ FeedsQualifying(link) = {1, 2}
          /\ FeedsKeeping(link) = {1}

----------------------------------------------------------------------------
(* C3, as claimed: the seen file is written only after the aggregation    *)
(* has returned, and at every moment of a run, also one that stops there,  *)
(* every link the run accepted and the seen file holds belongs to an       *)
(* article already printed in a digest.                                    *)
C3_PersistedOnlyIfEmitted ==
    /\ persisted_in = run => AggregationReturned
    /\ \A link \in AcceptedLinks \cap Persisted : link \in EmittedLinks

----------------------------------------------------------------------------
(* C4, as claimed: when the aggregation returns, the failure list is the   *)
(* URLs of the feeds whose fetch or document parse failed, in input order, *)
(* and every entry of another feed that was first to offer its link, not   *)
(* loaded as seen, inside the window, is an article of the result map.     *)
FirstToQualify(place) ==
    /\ Qualifies(EntryOf(place))
    /\ EntryOf(place).link \notin loaded
    /\ \A q \in Places :
          (EntryOf(q).link = EntryOf(place).link /\ Qualifies(EntryOf(q))) =>
              \/ place[1] < q[1]
              \/ place[1] = q[1] /\ place[2] <= q[2]

C4_FailureIsolation ==
    AggregationReturned =>
        /\ failed_feeds = SelectSeq(config.feeds, FetchFailed)
        /\ \A pl \in Places :
              FirstToQualify(pl) =>
                  \E a \in ResultArticles : a.feed = pl[1] /\ a.pos = pl[2]

----------------------------------------------------------------------------
----------------------------------------------------------------------------
(* C6: the cutoff does not change while the feeds are processed, and a     *)
(* step of the entry loop on an entry with an unseen link and a date that  *)
(* parses accepts it (appends it to the feed's new entries and marks its   *)
(* link seen) if and only if its date is not before the cutoff; rejected,  *)
(* it changes neither.                                                     *)
EntryLoopStep ==
    /\ pc = "entry"
    /\ j <= Len(upstream'[config.feeds[i]].entries)
    /\ j' # j \/ i' # i

C6_RecencyStep ==
    LET entry == upstream'[config.feeds[i]].entries[j] IN
    /\ pc \in {"feed", "entry"} => cutoff_date' = cutoff_date
    /\ (EntryLoopStep /\ entry.link # Absent /\ entry.link \notin seen_urls
                      /\ HasDate(entry)) =>
          IF PubDateStr(entry).day >= cutoff_date.day
          THEN /\ Len(new_entries') = Len(new_entries) + 1
               /\ new_entries'[Len(new_entries')].link = entry.link
               /\ new_entries'[Len(new_entries')].date.day = PubDateStr(entry).day
               /\ seen_urls' = seen_urls \cup {entry.link}
          ELSE /\ new_entries' = new_entries
               /\ seen_urls' = seen_urls

----------------------------------------------------------------------------
(* C7: every list of the result map holds articles of one feed, newest     *)
(* first, and articles of the same date in the order of their entries.     *)
C7_NewestFirstStable ==
    \A k \in DOMAIN new_articles_by_feed :
        LET list == new_articles_by_feed[k].value IN
        \A p, q \in DOMAIN list :
            p < q =>
                /\ list[p].feed = list[q].feed
                /\ list[p].date.day >= list[q].date.day
                /\ list[p].date.day = list[q].date.day =>
                      list[p].pos < list[q].pos

(* A list of the result map whose first article came later in the feed     *)
(* than its second.                                                        *)
C7_Witness ==
    \E k \in DOMAIN new_articles_by_feed :
        LET list == new_articles_by_feed[k].value IN
        /\ Len(list) >= 2
        /\ list[1].pos > list[2].pos
        /\ list[1].date.day > list[2].date.day

----------------------------------------------------------------------------
(* C8, as claimed: a run with a valid configuration that has ended has     *)
(* printed a digest that lists every failed feed, has written the seen set *)
(* to the file, and has printed every article it accepted.                 *)
RunEnded == pc \in {"done", "exit1"}

C8_EndedRunEmittedAndPersisted ==
    (RunEnded /\ config.kind = "valid") =>
        /\ stdout # <<>>
        /\ LET digest == stdout[Len(stdout)] IN
              failed_feeds # <<>> =>
                  digest.failed_panel.shown /\ digest.failed_panel.urls = failed_feeds
        /\ persisted_in = run
        /\ Persisted = seen_urls
        /\ AcceptedLinks \subseteq EmittedLinks

----------------------------------------------------------------------------
(* C9, as claimed: load_seen_articles raises for no file, and returns the  *)
(* empty set for every file that is not a JSON list of links.              *)
C9_LoadNeverRaises ==
    pc = "load_seen" =>
        LET r == load_seen_articles(seen_file) IN
        /\ r.raised = "none"
        /\ seen_file.kind # "list" => r.value = {}

----------------------------------------------------------------------------
(* C10, as claimed: no entry fails its feed: every feed of the failure     *)
(* list failed at its fetch or at the parse of its document.               *)
C10_EntryNeverFailsFeed ==
    \A k \in DOMAIN failed_feeds : FetchFailed(failed_feeds[k])

----------------------------------------------------------------------------
(* C11, as claimed: every list of the result map is non-empty, and when    *)
(* the aggregation returns, a feed that was fetched and parsed and none of *)
(* whose entries was first to offer its link, not loaded as seen, inside   *)
(* the window, has no article in the result map and is not in the failure  *)
(* list.                                                                   *)
YieldsNothing(k) ==
    /\ upstream[k].status = "ok"
    /\ \A pl \in Places : pl[1] = k => ~FirstToQualify(pl)

C11_EmptyFeedSilent ==
    /\ \A k \in DOMAIN new_articles_by_feed :
          new_articles_by_feed[k].value # <<>>
    /\ AggregationReturned =>
          \A k \in DOMAIN upstream :
              YieldsNothing(k) =>
                  /\ config.feeds[k] \notin Range(failed_feeds)
                  /\ \A a \in ResultArticles : a.feed # k

----------------------------------------------------------------------------
(* C12: a step of the entry loop on an entry that has no link, no date     *)
(* that parses, or a date before the cutoff leaves the seen set, the       *)
(* feed's new entries and the result map as they were; and no article of   *)
(* the new entries or of the result map comes from such an entry.          *)
Rejected(entry) ==
    \/ entry.link = Absent
    \/ ~HasDate(entry)
    \/ HasDate(entry) /\ PubDateStr(entry).day < cutoff_date.day

FromRejected(a) == Rejected(upstream[a.feed].entries[a.pos])

C12_SkipStep ==
    LET entry == upstream'[config.feeds[i]].entries[j] IN
    /\ (EntryLoopStep /\ Rejected(entry)) =>
          /\ seen_urls' = seen_urls
          /\ new_entries' = new_entries
          /\ new_articles_by_feed' = new_articles_by_feed
    /\ pc' \in {"feed", "entry", "format"} =>
          \A a \in (ResultArticles \cup Range(new_entries))' : ~FromRejected(a)'

C12_SkipLeavesSeenSet == [][C12_SkipStep]_vars

(* One feed served an entry dated before the cutoff and an entry inside    *)
(* the window, with different links: the first is in no list and not in    *)
(* the seen set, the second is in the result map and in the seen set.      *)
C12_Witness ==
    /\ AggregationReturned
    /\ \E p, q \in Places :
          /\ p[1] = q[1]
          /\ HasDate(EntryOf(p))
          /\ PubDateStr(EntryOf(p)).day < cutoff_date.day
          /\ EntryOf(p).link \notin seen_urls \cup ResultLinks
          /\ EntryOf(q).link \in ResultLinks \cap AcceptedLinks
          /\ \E a \in ResultArticles : a.feed = q[1] /\ a.pos = q[2]

----------------------------------------------------------------------------
(* C13: from the load on, the seen set of the run holds every link the     *)
(* run loaded; and once the run has saved, the file holds the seen set as  *)
(* it is, nothing else, and with it every link the run loaded.             *)
C13_SeenSetOnlyGrows ==
    /\ loaded \subseteq seen_urls
    /\ persisted_in = run =>
          /\ seen_file.kind = "list"
          /\ Range(seen_file.items) = seen_urls
          /\ loaded \subseteq Persisted

(* The run loaded a link, accepted another and saved both. *)
C13_Witness ==
    /\ persisted_in = run
    /\ loaded # {}
    /\ AcceptedLinks # {}
    /\ Persisted = loaded \cup AcceptedLinks

----------------------------------------------------------------------------
(* C14: the document rendered from a result map and a failure list has the *)
(* failure panel if and only if the list is not empty, with the failed     *)
(* URLs in the order of the list, and has the "no new articles" summary if *)
(* and only if the map is empty; so no article and no failure gives that   *)
(* summary without the panel, and no article with a failure gives both.    *)
Rendered == html_output # NoHtml
SaysNoArticles(html) == html.summary.text = "No new articles found"

C14_PanelsFollowResult ==
    Rendered =>
        LET total == SumArticles(new_articles_by_feed) IN
        /\ html_output.failed_panel.shown <=> failed_feeds # <<>>
        /\ html_output.failed_panel.shown =>
              /\ html_output.failed_panel.urls = failed_feeds
              /\ html_output.failed_panel.count = Len(failed_feeds)
        /\ SaysNoArticles(html_output) <=> new_articles_by_feed = <<>>
        /\ (total = 0 /\ failed_feeds = <<>>) =>
              SaysNoArticles(html_output) /\ ~html_output.failed_panel.shown
        /\ (total = 0 /\ failed_feeds # <<>>) =>
              SaysNoArticles(html_output) /\ html_output.failed_panel.shown

(* A document with the "no new articles" summary and a panel of two failed *)
(* feeds.                                                                  *)
C14_Witness ==
    /\ Rendered
    /\ new_articles_by_feed = <<>>
    /\ Len(failed_feeds) = 2
    /\ SaysNoArticles(html_output)
    /\ html_output.failed_panel.shown
    /\ html_output.failed_panel.urls = failed_feeds

----------------------------------------------------------------------------
(* C15: the links of the articles of the result map are pairwise distinct, *)
(* within a list and from list to list, and so are the links of the new    *)
(* entries of the feed being read; and an article that is kept comes from  *)
(* the first entry of its feed that carries its link inside the window.    *)
Slots == UNION {{<<k, p>> : p \in DOMAIN new_articles_by_feed[k].value} :
                k \in DOMAIN new_articles_by_feed}
ArticleAt(slot) == new_articles_by_feed[slot[1]].value[slot[2]]

FirstInItsFeed(a) ==
    \A q \in Places :
        (q[1] = a.feed /\ EntryOf(q).link = a.link /\ Qualifies(EntryOf(q))) =>
            a.pos <= q[2]

C15_LinksDistinct ==
    /\ \A s, t \in Slots : s # t => ArticleAt(s).link # ArticleAt(t).link
    /\ \A p, q \in DOMAIN new_entries :
          p # q => new_entries[p].link # new_entries[q].link
    /\ \A a \in ResultArticles \cup Range(new_entries) : FirstInItsFeed(a)

(* A feed served the same link twice inside the window, and the result map *)
(* holds it once, from the first of the two entries.                       *)
C15_Witness ==
    /\ AggregationReturned
    /\ \E p, q \in Places :
          /\ p[1] = q[1]
          /\ p[2] < q[2]
          /\ EntryOf(p).link = EntryOf(q).link
          /\ Qualifies(EntryOf(p))
          /\ Qualifies(EntryOf(q))
          /\ \E s \in Slots :
                /\ ArticleAt(s).link = EntryOf(p).link
                /\ ArticleAt(s).feed = p[1]
                /\ ArticleAt(s).pos = p[2]

----------------------------------------------------------------------------
(* C16, as claimed: a feed of the failure list added no link to the seen   *)
(* set: none of its entries was accepted, so every link the run added      *)
(* comes from an entry of a feed that is not in the failure list.          *)
AcceptedFrom(k) ==
    {EntryOf(pl).link : pl \in {q \in Places : q[1] = k /\ FirstToQualify(q)}}

C16_FailedFeedAddedNothing ==
    \A k \in DOMAIN failed_feeds :
        AcceptedFrom(failed_feeds[k]) \cap seen_urls = {}

----------------------------------------------------------------------------
(* C17, as claimed: when the aggregation returns and no feed has failed,   *)
(* the links the run added to the seen set are the links of the articles   *)
(* of the result map, and the map holds as many articles as links were     *)
(* added.                                                                  *)
C17_AddedLinksAreResultLinks ==
    (AggregationReturned /\ failed_feeds = <<>>) =>
        /\ AcceptedLinks = ResultLinks
        /\ SumArticles(new_articles_by_feed) = Cardinality(AcceptedLinks)

====
